---- MODULE Spec2Model ----
(***************************************************************************)
(* rustinmips: a MIPS-like 32-bit instruction-set simulator.               *)
(*                                                                         *)
(* A u32 is modelled as a pair <<hi, lo>> of its two 16-bit halves, so     *)
(* that every 32-bit value is representable and all arithmetic is exactly  *)
(* the arithmetic modulo 2^32 of the Rust source.                          *)
(***************************************************************************)
EXTENDS Integers, Sequences, FiniteSets, TLC

VARIABLES
    registers,    \* CPU.registers: 0..31 -> u32
    memory,       \* CPU.memory.data, the words that are not 0 (sparse)
    pc,           \* CPU.pc
    jump,         \* CPU.jump
    count,        \* run(): let mut count
    instruction,  \* run(): the word fetched at line 114
    phase,        \* position inside one iteration of the loop of run()
    status,       \* "running", or the way the process ended
    output,       \* what has been printed to stdout
    build,        \* "debug" (overflow checks on) or "release" (wrapping)
    at,           \* history: address of the instruction fetched last
    trail,        \* history: delay-slot addresses executed by the last execute
    taken,        \* history: the last execute took a conditional branch
    before,       \* history: registers and jump flag when the last execute began
    ran,          \* history: how often the word at an address was executed
    skips,        \* history: zero words skipped since the last instruction
    decoded       \* run(): the instruction get_instruction returned, line 121

vars == <<registers, memory, pc, jump, count, instruction, phase, status,
          output, build, at, trail, taken, before, ran, skips, decoded>>

-----------------------------------------------------------------------------
(* u32 arithmetic on <<hi, lo>> pairs                                      *)

Half == 65536

Pow2(n) == 2 ^ n

Zero == <<0, 0>>

U32(n) == <<n \div Half, n % Half>>

IsZero(w) == w = Zero

\* u32::wrapping_add
wrapping_add(a, b) ==
    LET lo == a[2] + b[2]
        hi == a[1] + b[1] + (lo \div Half)
    IN  <<hi % Half, lo % Half>>

\* TRUE iff a + b does not fit in a u32 (the `+` of a debug build panics)
AddOverflows(a, b) == a[1] + b[1] + ((a[2] + b[2]) \div Half) >= Half

RECURSIVE And16(_, _, _)
And16(x, y, n) ==
    IF n = 0 THEN 0
    ELSE (IF x % 2 = 1 /\ y % 2 = 1 THEN 1 ELSE 0)
         + 2 * And16(x \div 2, y \div 2, n - 1)

Not16(x) == (Half - 1) - x

Or16(x, y) == x + y - And16(x, y, 16)

Xor16(x, y) == x + y - 2 * And16(x, y, 16)

BitAnd(a, b) == <<And16(a[1], b[1], 16), And16(a[2], b[2], 16)>>

BitOr(a, b) == <<Or16(a[1], b[1]), Or16(a[2], b[2])>>

BitXor(a, b) == <<Xor16(a[1], b[1]), Xor16(a[2], b[2])>>

BitNot(a) == <<Not16(a[1]), Not16(a[2])>>

\* u32::wrapping_sub
wrapping_sub(a, b) == wrapping_add(a, wrapping_add(BitNot(b), <<0, 1>>))

\* u32 << k, 0 <= k <= 31
Shl(a, k) ==
    IF k >= 16 THEN <<(a[2] * Pow2(k - 16)) % Half, 0>>
    ELSE <<(a[1] * Pow2(k) + (a[2] \div Pow2(16 - k))) % Half,
           (a[2] * Pow2(k)) % Half>>

\* u32 >> k, 0 <= k <= 31 (zero fill)
Shr(a, k) ==
    IF k >= 16 THEN <<0, a[1] \div Pow2(k - 16)>>
    ELSE <<a[1] \div Pow2(k),
           (a[1] % Pow2(k)) * Pow2(16 - k) + (a[2] \div Pow2(k))>>

\* bit 31, the sign of the value read as i32
Negative(a) == a[1] >= 32768

\* (a as i32 >> k) as u32 (sign fill)
Sar(a, k) == IF Negative(a) THEN BitNot(Shr(BitNot(a), k)) ELSE Shr(a, k)

\* unsigned comparisons of u32
ULt(a, b) == a[1] < b[1] \/ (a[1] = b[1] /\ a[2] < b[2])

ULe(a, b) == a = b \/ ULt(a, b)

\* comparison of (a as i32) < (b as i32)
SLt(a, b) ==
    ULt(<<(a[1] + 32768) % Half, a[2]>>, <<(b[1] + 32768) % Half, b[2]>>)

\* (x as i16) as u32: sign extension of a 16-bit field
SignExtend(imm) == <<IF imm >= 32768 THEN Half - 1 ELSE 0, imm>>

-----------------------------------------------------------------------------
(* Memory and the register file                                            *)

\* Memory::STACK_POINTER = 0x7fffeffc
STACK_POINTER == <<32767, 61436>>

\* Memory::GLOBAL_POINTER = 0x10008000
GLOBAL_POINTER == <<4096, 32768>>

\* load_text: initial_text_address = 0x00400000; also the pc run() starts at
TEXT_BASE == <<64, 0>>

\* load_data: initial_data_address = 0x10010000
DATA_BASE == <<4097, 0>>

\* Memory::read: data is a vector of 2^32 words, zero-filled by Memory::new,
\* so every u32 address is in bounds; `memory` keeps the words that are not 0
Memory_read(mem, address) ==
    IF address \in DOMAIN mem THEN mem[address] ELSE Zero

\* Memory::read_byte returns the word stored at index `address`
Memory_read_byte(mem, address) == Memory_read(mem, address)

\* Memory::load_text / Memory::load_data: the words of `text` at base,
\* base + 4, ...
RECURSIVE Load(_, _, _)
Load(mem, base, words) ==
    IF words = <<>> THEN mem
    ELSE Load([a \in DOMAIN mem \cup {base} |->
                  IF a = base THEN Head(words) ELSE mem[a]],
              wrapping_add(base, <<0, 4>>), Tail(words))

\* CPU::read_register
read_register(cpu, register) ==
    IF register = 0 THEN Zero ELSE cpu.registers[register]

\* mutant: the write to register 0 is not filtered
write_register_unguarded(cpu, register, value) ==
    [cpu EXCEPT !.registers[register] = value]

\* CPU::write_register
write_register(cpu, register, value) ==
    IF register = 0 THEN cpu ELSE [cpu EXCEPT !.registers[register] = value]

\* cpu.registers[i].read(): the direct read the instruction handlers use
Register_read(cpu, register) == cpu.registers[register]

\* cpu.registers[i].write(v): the direct write of JAL and of syscall 5
Register_write(cpu, register, value) ==
    [cpu EXCEPT !.registers[register] = value]

\* a panic!, a failed unwrap or an overflow check: the process aborts
Abort(cpu, how) == [cpu EXCEPT !.status = how]

-----------------------------------------------------------------------------
(* Decoding                                                                *)

\* RFunction::new: the name table of the function codes (0x09, JALR, has no
\* entry; the text of the last arm, "unknown <funct> ||||", is kept as
\* "unknown")
RFunction_name(funct) ==
    CASE funct = 32 -> "ADD"
      [] funct = 33 -> "ADDU"
      [] funct = 34 -> "SUB"
      [] funct = 36 -> "AND"
      [] funct = 37 -> "OR"
      [] funct = 38 -> "XOR"
      [] funct = 39 -> "NOR"
      [] funct = 42 -> "SLT"
      [] funct = 0 -> "SLL"
      [] funct = 13 -> "NOOP"
      [] funct = 2 -> "SRL"
      [] funct = 3 -> "SRA"
      [] funct = 8 -> "JR"
      [] funct = 12 -> "SYSCALL"
      [] OTHER -> "unknown"

\* IFunction::new: the name table of the opcodes (the second arm for
\* 0b100101, "LHU", is unreachable)
IFunction_name(opcode) ==
    CASE opcode = 8 -> "ADDI"
      [] opcode = 9 -> "ADDIU"
      [] opcode = 12 -> "ANDI"
      [] opcode = 13 -> "ORI"
      [] opcode = 4 -> "BEQ"
      [] opcode = 5 -> "BNE"
      [] opcode = 1 -> "BGEZ"
      [] opcode = 6 -> "BLEZ"
      [] opcode = 32 -> "LB"
      [] opcode = 37 -> "LH"
      [] opcode = 15 -> "LUI"
      [] opcode = 35 -> "LW"
      [] opcode = 10 -> "SLTI"
      [] opcode = 43 -> "SW"
      [] OTHER -> "UNKNOWN"

\* JFunction::new
JFunction_name(opcode) ==
    CASE opcode = 2 -> "J"
      [] opcode = 3 -> "JAL"
      [] OTHER -> "Unknown J function"

\* word >> 26
Opcode(word) == word[1] \div 1024

\* mutant: rd is masked with four bits instead of five
RTypeInstruction_new_narrow_rd(word) ==
    [format |-> "R",
     opcode |-> Opcode(word),
     name   |-> RFunction_name(word[2] % 64),
     rs     |-> (word[1] \div 32) % 32,
     rt     |-> word[1] % 32,
     rd     |-> (word[2] \div 2048) % 16,
     shamt  |-> (word[2] \div 64) % 32,
     funct  |-> word[2] % 64]

\* RTypeInstruction::new
RTypeInstruction_new(word) ==
    [format |-> "R",
     opcode |-> Opcode(word),
     name   |-> RFunction_name(word[2] % 64),
     rs     |-> (word[1] \div 32) % 32,
     rt     |-> word[1] % 32,
     rd     |-> (word[2] \div 2048) % 32,
     shamt  |-> (word[2] \div 64) % 32,
     funct  |-> word[2] % 64]

\* ITypeInstruction::new; imm holds the 16 bits of the i16
ITypeInstruction_new(word) ==
    [format |-> "I",
     opcode |-> Opcode(word),
     name   |-> IFunction_name(Opcode(word)),
     rs     |-> (word[1] \div 32) % 32,
     rt     |-> word[1] % 32,
     imm    |-> word[2]]

\* JTypeInstruction::new; address = word & 0x3FFFFFF
JTypeInstruction_new(word) ==
    [format  |-> "J",
     opcode  |-> Opcode(word),
     name    |-> JFunction_name(Opcode(word)),
     address |-> <<word[1] % 1024, word[2]>>]

\* mutant: opcode 1 is taken for a jump as well
get_instruction_jump_from_1(word) ==
    CASE Opcode(word) = 0 -> RTypeInstruction_new(word)
      [] Opcode(word) \in {1, 2, 3} -> JTypeInstruction_new(word)
      [] OTHER -> ITypeInstruction_new(word)

\* instructions::get_instruction
get_instruction(word) ==
    CASE Opcode(word) = 0 -> RTypeInstruction_new(word)
      [] Opcode(word) \in {2, 3} -> JTypeInstruction_new(word)
      [] OTHER -> ITypeInstruction_new(word)

-----------------------------------------------------------------------------
(* Execution.  A cpu is the record                                         *)
(*   [registers, memory, pc, jump, status, output, build, trail, taken];   *)
(* trail and taken are history fields that no instruction reads.           *)

\* the frames of run_branch_delayed the stack of the process can hold
MaxNest == 3

RECURSIVE Instruction_execute(_, _, _, _)

\* CPU::run_branch_delayed: execute the word at pc + 4, inside the caller
run_branch_delayed(cpu, depth, input) ==
    IF depth >= MaxNest THEN Abort(cpu, "stack_overflow")
    ELSE IF cpu.build = "debug" /\ AddOverflows(cpu.pc, <<0, 4>>)
    THEN Abort(cpu, "panic_overflow")
    ELSE LET slot == wrapping_add(cpu.pc, <<0, 4>>)
         IN  Instruction_execute(
                 [cpu EXCEPT !.trail = Append(@, slot)],
                 get_instruction(Memory_read(cpu.memory, slot)),
                 depth + 1, input)

\* mutant: the return address is the delay slot's
ReturnAddress_plus4(pc_value) == wrapping_add(pc_value, <<0, 4>>)

\* `cpu.pc + 8` of JAL and JALR
ReturnAddress(pc_value) == wrapping_add(pc_value, <<0, 8>>)

\* mutant: the offset is in bytes, not in words
BranchTarget_unshifted(pc_value, imm) ==
    wrapping_add(pc_value, SignExtend(imm))

\* cpu.pc.wrapping_add((instruction.imm as u32) << 2)
BranchTarget(pc_value, imm) ==
    wrapping_add(pc_value, Shl(SignExtend(imm), 2))

(* ---- immediate format ---- *)

ADDI(cpu, i) ==
    write_register(cpu, i.rt,
        wrapping_add(Register_read(cpu, i.rs), SignExtend(i.imm)))

ADDIU(cpu, i) ==
    write_register(cpu, i.rt,
        wrapping_add(Register_read(cpu, i.rs), SignExtend(i.imm)))

ANDI(cpu, i) ==
    write_register(cpu, i.rt,
        BitAnd(Register_read(cpu, i.rs), SignExtend(i.imm)))

ORI(cpu, i) ==
    write_register(cpu, i.rt,
        BitOr(Register_read(cpu, i.rs), SignExtend(i.imm)))

\* mutant: a taken BEQ also raises the jump flag
BEQ_sets_jump(cpu, i, depth, input) ==
    IF Register_read(cpu, i.rs) = Register_read(cpu, i.rt)
    THEN LET d == run_branch_delayed([cpu EXCEPT !.taken = TRUE], depth, input)
         IN  IF d.status # "running" THEN d
             ELSE [d EXCEPT !.pc = BranchTarget(d.pc, i.imm), !.jump = TRUE]
    ELSE cpu

BEQ(cpu, i, depth, input) ==
    IF Register_read(cpu, i.rs) = Register_read(cpu, i.rt)
    THEN LET d == run_branch_delayed([cpu EXCEPT !.taken = TRUE], depth, input)
         IN  IF d.status # "running" THEN d
             ELSE [d EXCEPT !.pc = BranchTarget(d.pc, i.imm)]
    ELSE cpu

BNE(cpu, i, depth, input) ==
    IF Register_read(cpu, i.rs) # Register_read(cpu, i.rt)
    THEN LET d == run_branch_delayed([cpu EXCEPT !.taken = TRUE], depth, input)
         IN  IF d.status # "running" THEN d
             ELSE [d EXCEPT !.pc = BranchTarget(d.pc, i.imm)]
    ELSE cpu

\* mutant: the two register values are compared as i32
BGEZ_signed(cpu, i) ==
    IF ~SLt(Register_read(cpu, i.rs), Register_read(cpu, i.rt))
    THEN [cpu EXCEPT !.pc = BranchTarget(cpu.pc, i.imm), !.taken = TRUE]
    ELSE cpu

\* `rs >= rt` on the two u32 register values
BGEZ(cpu, i) ==
    IF ULe(Register_read(cpu, i.rt), Register_read(cpu, i.rs))
    THEN [cpu EXCEPT !.pc = BranchTarget(cpu.pc, i.imm), !.taken = TRUE]
    ELSE cpu

\* `rs <= rt` on the two u32 register values
BLEZ(cpu, i) ==
    IF ULe(Register_read(cpu, i.rs), Register_read(cpu, i.rt))
    THEN [cpu EXCEPT !.pc = BranchTarget(cpu.pc, i.imm), !.taken = TRUE]
    ELSE cpu

LB(cpu, i) ==
    LET address == wrapping_add(Register_read(cpu, i.rs), SignExtend(i.imm))
    IN  write_register(cpu, i.rt, Memory_read_byte(cpu.memory, address))

LUI(cpu, i) == write_register(cpu, i.rt, Shl(SignExtend(i.imm), 16))

\* IFunction::execute
IFunction_execute(cpu, i, depth, input) ==
    CASE i.opcode = 8 -> ADDI(cpu, i)
      [] i.opcode = 9 -> ADDIU(cpu, i)
      [] i.opcode = 12 -> ANDI(cpu, i)
      [] i.opcode = 13 -> ORI(cpu, i)
      [] i.opcode = 4 -> BEQ(cpu, i, depth, input)
      [] i.opcode = 5 -> BNE(cpu, i, depth, input)
      [] i.opcode = 1 -> BGEZ(cpu, i)
      [] i.opcode = 6 -> BLEZ(cpu, i)
      [] i.opcode = 32 -> LB(cpu, i)
      [] i.opcode = 15 -> LUI(cpu, i)
      [] OTHER -> Abort(cpu, "panic_unknown_itype")

(* ---- jump format ---- *)

\* mutant: J forgets to raise the jump flag
J_no_jump(cpu, i, depth, input) ==
    LET d == run_branch_delayed(cpu, depth, input)
    IN  IF d.status # "running" THEN d
        ELSE [d EXCEPT !.pc = Shl(i.address, 2)]

J(cpu, i, depth, input) ==
    LET d == run_branch_delayed(cpu, depth, input)
    IN  IF d.status # "running" THEN d
        ELSE [d EXCEPT !.pc = Shl(i.address, 2), !.jump = TRUE]

JAL(cpu, i, depth, input) ==
    IF cpu.build = "debug" /\ AddOverflows(cpu.pc, <<0, 8>>)
    THEN Abort(cpu, "panic_overflow")
    ELSE LET new_address == Shl(i.address, 2)
             ra == ReturnAddress(cpu.pc)
             d  == run_branch_delayed(cpu, depth, input)
         IN  IF d.status # "running" THEN d
             ELSE [Register_write(d, 31, ra) EXCEPT
                       !.pc = new_address, !.jump = TRUE]

\* JFunction::execute
JFunction_execute(cpu, i, depth, input) ==
    CASE i.opcode = 2 -> J(cpu, i, depth, input)
      [] i.opcode = 3 -> JAL(cpu, i, depth, input)
      [] OTHER -> Abort(cpu, "panic_invalid_jtype")

(* ---- register format ---- *)

\* mutant: an addition that traps on overflow, as the checked `+` would
ADD_trapping(cpu, r) ==
    IF AddOverflows(Register_read(cpu, r.rs), Register_read(cpu, r.rt))
    THEN Abort(cpu, "panic_overflow")
    ELSE write_register(cpu, r.rd,
             wrapping_add(Register_read(cpu, r.rs), Register_read(cpu, r.rt)))

ADD(cpu, r) ==
    write_register(cpu, r.rd,
        wrapping_add(Register_read(cpu, r.rs), Register_read(cpu, r.rt)))

ADDU(cpu, r) ==
    write_register(cpu, r.rd,
        wrapping_add(Register_read(cpu, r.rs), Register_read(cpu, r.rt)))

SUB(cpu, r) ==
    write_register(cpu, r.rd,
        wrapping_sub(Register_read(cpu, r.rs), Register_read(cpu, r.rt)))

AND(cpu, r) ==
    write_register(cpu, r.rd,
        BitAnd(Register_read(cpu, r.rs), Register_read(cpu, r.rt)))

OR(cpu, r) ==
    write_register(cpu, r.rd,
        BitOr(Register_read(cpu, r.rs), Register_read(cpu, r.rt)))

XOR(cpu, r) ==
    write_register(cpu, r.rd,
        BitXor(Register_read(cpu, r.rs), Register_read(cpu, r.rt)))

NOR(cpu, r) ==
    write_register(cpu, r.rd,
        BitNot(BitOr(Register_read(cpu, r.rs), Register_read(cpu, r.rt))))

\* mutant: the comparison without the casts to i32
SLT_unsigned(cpu, r) ==
    write_register(cpu, r.rd,
        IF ULt(Register_read(cpu, r.rs), Register_read(cpu, r.rt))
        THEN <<0, 1>> ELSE Zero)

SLT(cpu, r) ==
    write_register(cpu, r.rd,
        IF SLt(Register_read(cpu, r.rs), Register_read(cpu, r.rt))
        THEN <<0, 1>> ELSE Zero)

SLL(cpu, r) ==
    IF r.rd = 0 /\ r.rt = 0 THEN cpu
    ELSE write_register(cpu, r.rd, Shl(Register_read(cpu, r.rt), r.shamt))

NOOP(cpu, r) == cpu

SRL(cpu, r) ==
    write_register(cpu, r.rd, Shr(Register_read(cpu, r.rt), r.shamt))

\* mutant: the shift without the cast to i32, zero fill
SRA_zero_fill(cpu, r) ==
    write_register(cpu, r.rd, Shr(Register_read(cpu, r.rt), r.shamt))

SRA(cpu, r) ==
    write_register(cpu, r.rd, Sar(Register_read(cpu, r.rt), r.shamt))

\* rs is read after the delay slot has run
JR(cpu, r, depth, input) ==
    LET d == run_branch_delayed(cpu, depth, input)
    IN  IF d.status # "running" THEN d
        ELSE [d EXCEPT !.pc = Register_read(d, r.rs), !.jump = TRUE]

\* rs and ra are read before the delay slot runs
JALR(cpu, r, depth, input) ==
    IF cpu.build = "debug" /\ AddOverflows(cpu.pc, <<0, 8>>)
    THEN Abort(cpu, "panic_overflow")
    ELSE LET rs == Register_read(cpu, r.rs)
             ra == ReturnAddress(cpu.pc)
             d  == run_branch_delayed(cpu, depth, input)
         IN  IF d.status # "running" THEN d
             ELSE [write_register(d, r.rd, ra) EXCEPT
                       !.pc = rs, !.jump = TRUE]

\* byte i (0 = least significant) of a word
ByteOf(value, i) ==
    CASE i = 0 -> value[2] % 256
      [] i = 1 -> value[2] \div 256
      [] i = 2 -> value[1] % 256
      [] i = 3 -> value[1] \div 256

\* the inner `for i in relative..4` of get_text: the bytes pushed, and
\* whether a zero byte ended the scan
RECURSIVE ByteChain(_, _)
ByteChain(value, i) ==
    IF i >= 4 THEN [bytes |-> <<>>, must_loop |-> TRUE]
    ELSE IF ByteOf(value, i) = 0 THEN [bytes |-> <<>>, must_loop |-> FALSE]
    ELSE LET rest == ByteChain(value, i + 1)
         IN  [bytes |-> <<ByteOf(value, i)>> \o rest.bytes,
              must_loop |-> rest.must_loop]

\* the outer loop of get_text from an aligned address: the bytes read, or
\* <<-1>> when `address += 4` overflows in a debug build
RECURSIVE TextFrom(_, _, _, _)
TextFrom(mem, address, relative, bld) ==
    LET chain == ByteChain(Memory_read(mem, address), relative)
    IN  IF ~chain.must_loop THEN chain.bytes
        ELSE IF bld = "debug" /\ AddOverflows(address, <<0, 4>>)
        THEN <<-1>>
        ELSE LET rest == TextFrom(mem, wrapping_add(address, <<0, 4>>), 0, bld)
             IN  IF rest = <<-1>> THEN rest ELSE chain.bytes \o rest

\* mutant: the scan starts at byte 0 of the word, whatever address % 4 is
get_text_from_word_start(cpu, address) ==
    TextFrom(cpu.memory, wrapping_sub(address, <<0, address[2] % 4>>), 0,
             cpu.build)

\* utils::get_text
get_text(cpu, address) ==
    LET relative == address[2] % 4
    IN  TextFrom(cpu.memory, wrapping_sub(address, <<0, relative>>),
                 relative, cpu.build)

\* mutant: a syscall that is not an exit raises the jump flag
SYSCALL_sets_jump(cpu, input) ==
    IF Register_read(cpu, 2) = <<0, 10>>
    THEN [cpu EXCEPT !.status = "exit_syscall"]
    ELSE [cpu EXCEPT !.jump = TRUE]

\* mutant: every service other than print-integer ends the run
SYSCALL_default_exits(cpu, input) ==
    IF Register_read(cpu, 2) = <<0, 1>>
    THEN [cpu EXCEPT !.output = Append(@, <<"int", Register_read(cpu, 4)>>)]
    ELSE [cpu EXCEPT !.status = "exit_syscall"]

\* mutant: service 10 returns instead of ending the run
SYSCALL_exit_ignored(cpu, input) ==
    IF Register_read(cpu, 2) = <<0, 1>>
    THEN [cpu EXCEPT !.output = Append(@, <<"int", Register_read(cpu, 4)>>)]
    ELSE cpu

\* the SYSCALL arm; input is the line read from stdin: [ok, value], ok
\* being FALSE when the line does not parse as a u32
SYSCALL(cpu, input) ==
    LET v0 == Register_read(cpu, 2)
        a0 == Register_read(cpu, 4)
    IN  CASE v0 = <<0, 1>> ->
               [cpu EXCEPT !.output = Append(@, <<"int", a0>>)]
          [] v0 = <<0, 4>> ->
               LET text == get_text(cpu, a0)
               IN  IF text = <<-1>> THEN Abort(cpu, "panic_overflow")
                   ELSE [cpu EXCEPT !.output = Append(@, <<"text", text>>)]
          [] v0 = <<0, 5>> ->
               IF ~input.ok THEN Abort(cpu, "panic_input")
               ELSE Register_write(cpu, 2, input.value)
          [] v0 = <<0, 10>> -> [cpu EXCEPT !.status = "exit_syscall"]
          [] v0 = <<0, 11>> ->
               [cpu EXCEPT !.output = Append(@, <<"char", a0[2] % 256>>)]
          [] OTHER -> cpu

\* the `_ => println!("unknown")` arm
UnknownFunct(cpu, r) == [cpu EXCEPT !.output = Append(@, <<"line", "unknown">>)]

\* RFunction::execute
RFunction_execute(cpu, r, depth, input) ==
    CASE r.funct = 32 -> ADD(cpu, r)
      [] r.funct = 33 -> ADDU(cpu, r)
      [] r.funct = 34 -> SUB(cpu, r)
      [] r.funct = 36 -> AND(cpu, r)
      [] r.funct = 37 -> OR(cpu, r)
      [] r.funct = 38 -> XOR(cpu, r)
      [] r.funct = 39 -> NOR(cpu, r)
      [] r.funct = 42 -> SLT(cpu, r)
      [] r.funct = 0 -> SLL(cpu, r)
      [] r.funct = 13 -> NOOP(cpu, r)
      [] r.funct = 2 -> SRL(cpu, r)
      [] r.funct = 3 -> SRA(cpu, r)
      [] r.funct = 8 -> JR(cpu, r, depth, input)
      [] r.funct = 9 -> JALR(cpu, r, depth, input)
      [] r.funct = 12 -> SYSCALL(cpu, input)
      [] OTHER -> UnknownFunct(cpu, r)

\* <dyn Instruction>::execute: each format hands over to its function table
Instruction_execute(cpu, i, depth, input) ==
    CASE i.format = "R" -> RFunction_execute(cpu, i, depth, input)
      [] i.format = "J" -> JFunction_execute(cpu, i, depth, input)
      [] OTHER -> IFunction_execute(cpu, i, depth, input)

-----------------------------------------------------------------------------
(* Program images                                                          *)

\* the 16 bits of an i16
Imm(n) == IF n < 0 THEN Half + n ELSE n

\* the words that ITypeInstruction::new, RTypeInstruction::new and
\* JTypeInstruction::new take apart
EncI(opcode, rs, rt, imm) == <<opcode * 1024 + rs * 32 + rt, Imm(imm)>>

EncR(rs, rt, rd, shamt, funct) ==
    <<rs * 32 + rt, rd * 2048 + shamt * 64 + funct>>

EncJ(opcode, target) ==
    LET field == Shr(target, 2)
    IN  <<opcode * 1024 + (field[1] % 1024), field[2]>>

\* address of word number n of the text
TextAddr(n) == wrapping_add(TEXT_BASE, <<0, 4 * n>>)

\* register set-up before the instruction under test
Setups ==
    { <<>>,
      <<EncI(8, 0, 1, 10), EncI(8, 0, 2, 10)>>,
      <<EncI(8, 0, 1, 1), EncI(8, 0, 2, 2)>>,
      <<EncI(8, 0, 1, 3), EncI(8, 0, 2, 2)>>,
      <<EncI(8, 0, 1, -1)>>,
      <<EncI(8, 0, 1, -8)>>,
      <<EncI(15, 0, 1, 64), EncI(8, 1, 1, 24), EncI(8, 0, 2, 10)>>,
      <<EncI(8, 0, 2, 1), EncI(8, 0, 4, 65)>>,
      <<EncI(8, 0, 2, 4), EncI(15, 0, 4, 4097)>>,
      <<EncI(8, 0, 2, 4), EncI(15, 0, 4, 4097), EncI(8, 4, 4, 1)>>,
      <<EncI(8, 0, 2, 5), EncI(8, 0, 4, 65)>>,
      <<EncI(8, 0, 2, 11), EncI(8, 0, 4, 65)>>,
      <<EncI(8, 0, 2, 7), EncI(8, 0, 4, 65)>>,
      <<EncI(8, 0, 1, -10), EncI(8, 0, 2, 20)>>,
      <<EncI(8, 0, 2, 4), EncI(15, 0, 4, 4097), EncI(8, 4, 4, 3)>> }

\* the instruction under test, at word n of the text; word n + 1 is its
\* delay slot, word n + 2 an ADDI r3,r3,99 and word n + 3 a SYSCALL
Ops(n) ==
    { EncI(4, 1, 2, 2), EncI(5, 1, 2, 2), EncI(1, 1, 2, 2), EncI(6, 1, 2, 2),
      EncI(4, 1, 2, 1), EncI(1, 1, 0, 2), EncI(6, 1, 0, 2),
      EncJ(2, TextAddr(n + 3)), EncJ(3, TextAddr(n + 3)),
      EncR(1, 0, 0, 0, 8), EncR(1, 0, 5, 0, 9), EncR(1, 0, 31, 0, 9),
      EncR(1, 0, 0, 0, 9),
      EncI(8, 0, 0, 5), EncI(8, 1, 3, -3), EncI(9, 1, 3, 7),
      EncI(12, 1, 3, -4), EncI(13, 1, 3, 12), EncI(15, 0, 3, 4660),
      EncI(15, 0, 0, 1), EncI(32, 1, 3, 0), EncI(32, 4, 3, 0),
      EncI(35, 1, 3, 0), EncI(43, 1, 3, 0), EncI(10, 1, 3, 5),
      EncI(37, 1, 3, 0), EncI(63, 1, 3, 0),
      EncR(1, 2, 3, 0, 32), EncR(1, 2, 0, 0, 32), EncR(1, 2, 3, 0, 33),
      EncR(1, 2, 3, 0, 34), EncR(1, 2, 3, 0, 36), EncR(1, 2, 3, 0, 37),
      EncR(1, 2, 3, 0, 38), EncR(1, 2, 3, 0, 39), EncR(1, 2, 3, 0, 42),
      EncR(0, 1, 3, 2, 0), EncR(0, 1, 3, 2, 2), EncR(0, 1, 3, 2, 3),
      EncR(0, 1, 0, 4, 0), EncR(0, 0, 0, 0, 13), EncR(0, 0, 0, 0, 12),
      EncR(1, 2, 3, 0, 63),
      EncI(13, 1, 3, -4),
      EncR(0, 1, 3, 0, 0), EncR(0, 1, 3, 0, 2), EncR(0, 1, 3, 0, 3),
      EncR(0, 1, 3, 17, 0), EncR(0, 1, 3, 17, 2), EncR(0, 1, 3, 17, 3) }

\* the word in the delay slot, word n + 1 of the text
Slots(n) ==
    { Zero, EncI(8, 3, 3, 1), EncI(8, 0, 31, 77), EncI(8, 0, 5, 77),
      EncI(8, 1, 1, 4), EncI(1, 0, 0, 1), EncI(4, 0, 0, 1),
      EncJ(2, TextAddr(n + 3)), EncR(1, 0, 0, 0, 8), EncR(0, 0, 0, 0, 12),
      EncI(35, 1, 3, 0) }

\* programs that run until the instruction ceiling
Loops ==
    { <<EncJ(2, TEXT_BASE)>>,
      <<EncI(8, 3, 3, 1), EncI(4, 0, 0, -2), EncR(0, 0, 0, 0, 13)>> }

\* the program of the end-to-end scenario as it is written, the SYSCALL
\* right after the ADD, then a second SYSCALL and a later instruction
Literal ==
    <<EncI(8, 0, 2, 5), EncI(8, 0, 3, 7), EncR(2, 3, 4, 0, 32),
      EncR(0, 0, 0, 0, 12), EncR(0, 0, 0, 0, 12), EncI(8, 3, 3, 99)>>

\* the same program with v0 (register 2) set to 1 before the first SYSCALL
\* and to 10 before the second
Prepared ==
    <<EncI(8, 0, 2, 5), EncI(8, 0, 3, 7), EncR(2, 3, 4, 0, 32),
      EncI(8, 0, 2, 1), EncR(0, 0, 0, 0, 12),
      EncI(8, 0, 2, 10), EncR(0, 0, 0, 0, 12), EncI(8, 3, 3, 99)>>

EndToEnd == {Literal, Prepared}

Texts ==
    UNION { { setup \o <<op, slot, EncI(8, 3, 3, 99), EncR(0, 0, 0, 0, 12)>> :
                op \in Ops(Len(setup)), slot \in Slots(Len(setup)) } : setup \in Setups }
    \cup Loops \cup EndToEnd

\* the .data stream: "Hello\0\0\0", four characters per word, least
\* significant byte first
HelloData == << <<27756, 25928>>, <<0, 111>> >>

\* the lines stdin may deliver to syscall 5
Inputs ==
    { [ok |-> TRUE, value |-> <<0, 10>>],
      [ok |-> TRUE, value |-> <<0, 7>>],
      [ok |-> FALSE, value |-> Zero] }

-----------------------------------------------------------------------------
(* The CPU as a state machine                                              *)

\* the zero words the model follows pc over before it stops exploring
MaxSkips == 3

\* run(): `if count > 8000`
CEILING == 8000

\* mutant: the two pointers go to each other's register
CPU_new_swapped ==
    LET fresh == [registers |-> [r \in 0..31 |-> Zero]]
    IN  write_register(write_register(fresh, 29, GLOBAL_POINTER),
                       28, STACK_POINTER).registers

\* CPU::new
CPU_new ==
    LET fresh == [registers |-> [r \in 0..31 |-> Zero]]
    IN  write_register(write_register(fresh, 28, GLOBAL_POINTER),
                       29, STACK_POINTER).registers

\* read_program_elf: load_text, then load_data
Image(text, data) == Load(Load(<<>>, TEXT_BASE, text), DATA_BASE, data)

\* main(): CPU::new, read_program_elf, and the first two lines of run()
Init ==
    /\ registers = CPU_new
    /\ \E text \in Texts : memory = Image(text, HelloData)
    /\ pc = TEXT_BASE
    /\ jump = FALSE
    /\ count = 0
    /\ instruction = Zero
    /\ phase = "fetch"
    /\ status = "running"
    /\ output = <<>>
    /\ build \in {"debug", "release"}
    /\ at = TEXT_BASE
    /\ trail = <<>>
    /\ taken = FALSE
    /\ before = [registers |-> CPU_new, jump |-> FALSE, pc |-> TEXT_BASE]
    /\ ran = <<>>
    /\ skips = 0
    /\ decoded = <<>>

\* how often the word at address a has been executed
Ran(a) == IF a \in DOMAIN ran THEN ran[a] ELSE 0

RECURSIVE Count(_, _)
Count(a, s) ==
    IF s = <<>> THEN 0 ELSE (IF Head(s) = a THEN 1 ELSE 0) + Count(a, Tail(s))

Bump(r, addresses) ==
    [a \in DOMAIN r \cup {addresses[k] : k \in DOMAIN addresses} |->
        (IF a \in DOMAIN r THEN r[a] ELSE 0) + Count(a, addresses)]

\* run(), line 114 with lines 116-119: a zero word is skipped, uncounted
Skip ==
    /\ status = "running"
    /\ phase = "fetch"
    /\ Memory_read(memory, pc) = Zero
    /\ skips < MaxSkips
    /\ IF build = "debug" /\ AddOverflows(pc, <<0, 4>>)
       THEN status' = "panic_overflow" /\ pc' = pc
       ELSE status' = status /\ pc' = wrapping_add(pc, <<0, 4>>)
    /\ skips' = skips + 1
    /\ UNCHANGED <<registers, memory, jump, count, instruction, phase,
                   output, build, at, trail, taken, before, ran, decoded>>

\* run(), line 114: a word that is not zero goes on to be decoded
Fetch ==
    /\ status = "running"
    /\ phase = "fetch"
    /\ Memory_read(memory, pc) # Zero
    /\ instruction' = Memory_read(memory, pc)
    /\ phase' = "execute"
    /\ at' = pc
    /\ skips' = 0
    /\ decoded' = get_instruction(Memory_read(memory, pc))
    /\ UNCHANGED <<registers, memory, pc, jump, count, status, output,
                   build, trail, taken, before, ran>>

\* run(), lines 121-123: decode and execute, delay slot included
Execute ==
    /\ status = "running"
    /\ phase = "execute"
    /\ \E input \in Inputs :
         LET cpu == [registers |-> registers, memory |-> memory, pc |-> pc,
                     jump |-> jump, status |-> status, output |-> output,
                     build |-> build, trail |-> <<>>, taken |-> FALSE]
             c   == Instruction_execute(cpu, get_instruction(instruction),
                                        0, input)
         IN  /\ registers' = c.registers
             /\ memory' = c.memory
             /\ pc' = c.pc
             /\ jump' = c.jump
             /\ status' = c.status
             /\ output' = c.output
             /\ trail' = c.trail
             /\ taken' = c.taken
             /\ ran' = Bump(ran, <<at>> \o c.trail)
             /\ phase' = IF c.status = "running" THEN "advance" ELSE phase
    /\ before' = [registers |-> registers, jump |-> jump, pc |-> pc]
    /\ UNCHANGED <<count, instruction, build, at, skips, decoded>>

\* mutant: the jump flag is consulted but not cleared
AdvancePc_keeps_flag(pc_value, jump_flag) ==
    IF ~jump_flag
    THEN [pc |-> wrapping_add(pc_value, <<0, 4>>), jump |-> jump_flag]
    ELSE [pc |-> pc_value, jump |-> jump_flag]

\* run(), lines 125-129, when `self.pc += 4` does not panic
AdvancePc(pc_value, jump_flag) ==
    IF ~jump_flag
    THEN [pc |-> wrapping_add(pc_value, <<0, 4>>), jump |-> jump_flag]
    ELSE [pc |-> pc_value, jump |-> FALSE]

\* run(), lines 125-135
Advance ==
    /\ status = "running"
    /\ phase = "advance"
    /\ IF ~jump /\ build = "debug" /\ AddOverflows(pc, <<0, 4>>)
       THEN /\ status' = "panic_overflow"
            /\ UNCHANGED <<pc, jump, count, phase>>
       ELSE /\ pc' = AdvancePc(pc, jump).pc
            /\ jump' = AdvancePc(pc, jump).jump
            /\ count' = count + 1
            /\ status' = IF count + 1 > CEILING THEN "exit_ceiling" ELSE status
            /\ phase' = "fetch"
    /\ UNCHANGED <<registers, memory, instruction, output, build, at, trail,
                   taken, before, ran, skips, decoded>>

Next == Skip \/ Fetch \/ Execute \/ Advance

Spec == Init /\ [][Next]_vars

-----------------------------------------------------------------------------
(* get_instruction on its own: one word in, one instruction out            *)

\* the values the 5-bit fields of a register-format word take
DecodeFields == {0, 1, 21, 31}

\* the low 26 bits the words of the other opcodes carry
DecodeTails == {Zero, <<1023, 65535>>, <<682, 43690>>, <<341, 21845>>}

\* the words handed to get_instruction: every function code with every
\* combination of field values, and every opcode with every tail
Words ==
    { EncR(rs, rt, rd, shamt, funct) :
        rs \in DecodeFields, rt \in DecodeFields, rd \in DecodeFields,
        shamt \in DecodeFields, funct \in 0..63 }
    \cup { <<opcode * 1024 + tail[1], tail[2]>> :
             opcode \in 0..63, tail \in DecodeTails }

\* a word is at hand, as after line 114 of run(), zero or not
DecodeInit ==
    /\ registers = CPU_new
    /\ memory = <<>>
    /\ pc = TEXT_BASE
    /\ jump = FALSE
    /\ count = 0
    /\ instruction \in Words
    /\ phase = "decode"
    /\ status = "running"
    /\ output = <<>>
    /\ build \in {"debug", "release"}
    /\ at = TEXT_BASE
    /\ trail = <<>>
    /\ taken = FALSE
    /\ before = [registers |-> CPU_new, jump |-> FALSE, pc |-> TEXT_BASE]
    /\ ran = <<>>
    /\ skips = 0
    /\ decoded = <<>>

\* instructions::get_instruction(word), as called at line 121 of run()
Decode ==
    /\ phase = "decode"
    /\ decoded' = get_instruction(instruction)
    /\ phase' = "execute"
    /\ UNCHANGED <<registers, memory, pc, jump, count, instruction, status,
                   output, build, at, trail, taken, before, ran, skips>>

DecodeNext == Decode

DecodeSpec == DecodeInit /\ [][DecodeNext]_vars

-----------------------------------------------------------------------------
(* Properties                                                              *)

\* the instruction fetched last, decoded
Decoded == get_instruction(instruction)

IsBranch(i) == i.format = "I" /\ i.opcode \in {1, 4, 5, 6}

IsJump(i) == i.format = "J" \/ (i.format = "R" /\ i.funct \in {8, 9})

\* ADD ADDU SUB AND OR XOR NOR SLT SLL SRL SRA NOOP SYSCALL,
\* ADDI ADDIU ANDI ORI LUI LB
IsNonControl(i) ==
    \/ i.format = "R" /\ i.funct \in {32, 33, 34, 36, 37, 38, 39, 42, 0, 2, 3, 13, 12}
    \/ i.format = "I" /\ i.opcode \in {8, 9, 12, 13, 15, 32}

\* the state is the one the Execute step of `instruction` (at `at`) left
Executed == phase = "advance" \/ (phase = "execute" /\ status # "running")

Plus(a, n) == wrapping_add(a, <<0, n>>)

\* BEQ r1,r2,+2 at A, ADDI r3,r3,1 at A+4, ADDI r3,r3,99 at A+8
C1_Program(A) ==
    /\ Memory_read(memory, A) = EncI(4, 1, 2, 2)
    /\ Memory_read(memory, Plus(A, 4)) = EncI(8, 3, 3, 1)
    /\ Memory_read(memory, Plus(A, 8)) = EncI(8, 3, 3, 99)

\* C1: in a program BEQ r1,r2,+2; ADDI r3,r3,1; ADDI r3,r3,99 whose BEQ has
\* been executed with r1 = r2, the delay slot has run exactly once, inside
\* the BEQ and before pc changed, r3 has grown by exactly 1, and the ADDI
\* r3,r3,99 has never run.
C1_BranchDelay ==
    \A A \in DOMAIN memory :
        (C1_Program(A) /\ Ran(A) >= 1 /\ registers[1] = registers[2]) =>
            /\ Ran(Plus(A, 4)) = 1
            /\ Ran(Plus(A, 8)) = 0
            /\ registers[3] = <<0, 1>>
            /\ (phase = "advance" /\ at = A) =>
                   /\ trail = <<Plus(A, 4)>>
                   /\ registers[3] = Plus(before.registers[3], 1)
                   /\ pc = Plus(A, 8) /\ ~jump

C1_Witness ==
    \E A \in DOMAIN memory :
        /\ C1_Program(A) /\ Ran(A) = 1 /\ registers[1] = registers[2]
        /\ status = "exit_syscall"
        /\ at = Plus(A, 12)
        /\ registers[3] = <<0, 1>>

\* C2: when a branch or jump at A has been executed, the word at A+4 was
\* executed inside it, before pc changed, or pc is unchanged so that the
\* word at A+4 is the next one executed.
C2_DelaySlotAlways ==
    (phase = "advance" /\ (IsBranch(Decoded) \/ IsJump(Decoded))) =>
        \/ (trail # <<>> /\ trail[1] = Plus(at, 4))
        \/ (pc = at /\ ~jump)

\* C3 as claimed: a taken branch or a jump that has been executed has set
\* the jump flag.
C3_ControlFlowSetsFlag ==
    (phase = "advance" /\ ((IsBranch(Decoded) /\ taken) \/ IsJump(Decoded)))
        => jump

\* C3 as amended: a jump (J, JAL, JR, JALR) sets the jump flag and the next
\* fetch is from the pc it wrote; a taken branch (BEQ, BNE, BGEZ, BLEZ)
\* leaves the flag clear, the loop adds 4 and the next fetch is from the pc
\* it wrote plus 4 (unless that addition overflows in a debug build, which
\* ends the run).
C3_JumpsSetFlagBranchesDoNot ==
    [][(phase = "advance" /\ status = "running") =>
          /\ IsJump(Decoded) => (jump /\ pc' = pc)
          /\ (IsBranch(Decoded) /\ taken) =>
                 /\ ~jump
                 /\ status' = "running" => pc' = Plus(pc, 4)]_vars

C3_Witness ==
    /\ phase = "fetch" /\ count >= 1 /\ status = "running"
    /\ IsBranch(Decoded) /\ taken
    /\ Decoded.opcode = 4
    /\ pc = Plus(BranchTarget(at, Decoded.imm), 4)

\* C4: register 0 holds 0 in every reachable state, so every read of it by
\* an instruction yields 0.
C4_RegisterZero == registers[0] = Zero

C4_Witness ==
    /\ phase = "advance"
    /\ instruction = EncI(8, 0, 0, 5)
    /\ registers[0] = Zero

\* C5: after JAL at A register 31 holds A + 8, and after JALR at A with
\* rd # 0 register rd holds A + 8, whatever the delay slot wrote.
C5_ReturnAddress ==
    (phase = "advance" /\ status = "running") =>
        /\ (Decoded.format = "J" /\ Decoded.opcode = 3) =>
               registers[31] = Plus(at, 8)
        /\ (Decoded.format = "R" /\ Decoded.funct = 9 /\ Decoded.rd # 0) =>
               registers[Decoded.rd] = Plus(at, 8)

\* a JAL whose delay slot is ADDI r31,r0,77
C5_Witness ==
    /\ phase = "advance" /\ status = "running"
    /\ Decoded.format = "J" /\ Decoded.opcode = 3
    /\ trail = <<Plus(at, 4)>>
    /\ Memory_read(memory, Plus(at, 4)) = EncI(8, 0, 31, 77)
    /\ registers[31] = Plus(at, 8)

\* C6: the jump flag is clear whenever the loop fetches and whenever it
\* starts to execute: a flag raised in one step is cleared in that step.
C6_FlagClearAtFetch == phase \in {"fetch", "execute"} => ~jump

\* the step of a jump is over: flag cleared, pc at the target
C6_Witness ==
    /\ phase = "fetch" /\ count >= 1 /\ status = "running"
    /\ Decoded.format = "J" /\ Decoded.opcode = 2
    /\ pc = Shl(Decoded.address, 2)
    /\ ~jump

\* C7: an executed ADD, ADDU, SUB, AND, OR, XOR, NOR, SLT, SLL, SRL, SRA,
\* NOOP, SYSCALL, ADDI, ADDIU, ANDI, ORI, LUI or LB has left the jump flag
\* as it was when its execution began.
C7_NonControlKeepsFlag ==
    (Executed /\ IsNonControl(Decoded)) => jump = before.jump

C7_Witness ==
    /\ phase = "advance"
    /\ Decoded.format = "R" /\ Decoded.funct = 12
    /\ before.registers[2] = <<0, 1>>
    /\ jump = before.jump

\* C8: forward progress over zero words: a fetch that finds a zero word
\* leaves the run running and moves pc forward by 4.
C8_ZeroWordsProgress ==
    [][(status = "running" /\ phase = "fetch"
        /\ Memory_read(memory, pc) = Zero) =>
          /\ status' = "running"
          /\ pc' = Plus(pc, 4) /\ ULt(pc, pc')]_vars

\* C9: BGEZ is taken iff rs, read as i32, is >= 0, and BLEZ iff it is <= 0.
C9_CompareWithZero ==
    (phase = "advance" /\ Decoded.format = "I") =>
        /\ Decoded.opcode = 1 =>
               (taken <=> ~Negative(before.registers[Decoded.rs]))
        /\ Decoded.opcode = 6 =>
               (taken <=> (Negative(before.registers[Decoded.rs])
                           \/ before.registers[Decoded.rs] = Zero))

\* C10: an executed LW has loaded the word at rs + imm into rt, an executed
\* SW has stored rt into the word at rs + imm, and neither has aborted the
\* run.
C10_LoadStore ==
    (Executed /\ Decoded.format = "I" /\ Decoded.opcode \in {35, 43}) =>
        /\ status = "running"
        /\ LET address == wrapping_add(before.registers[Decoded.rs],
                                       SignExtend(Decoded.imm))
           IN  registers[Decoded.rt] = Memory_read(memory, address)

\* the byte at byte address a in the layout of four characters per word,
\* least significant byte first
PackedByte(mem, a) ==
    ByteOf(Memory_read(mem, wrapping_sub(a, <<0, a[2] % 4>>)), a[2] % 4)

\* C11: LB loads exactly one byte, zero-extended: with a = rs + imm, rt
\* receives the byte at offset a mod 4 of the word containing a, a value in
\* 0..255
C11_LoadByte ==
    (Executed /\ status = "running" /\ Decoded.format = "I"
       /\ Decoded.opcode = 32 /\ Decoded.rt # 0)
    => LET a == wrapping_add(before.registers[Decoded.rs],
                             SignExtend(Decoded.imm))
       IN  /\ registers[Decoded.rt] = <<0, PackedByte(memory, a)>>
           /\ registers[Decoded.rt][1] = 0
           /\ registers[Decoded.rt][2] \in 0..255

\* a function code or opcode that neither the name table nor execute knows
Unrecognized(i) ==
    \/ i.format = "R" /\ i.funct \notin {32, 33, 34, 36, 37, 38, 39, 42, 0,
                                          13, 2, 3, 8, 9, 12}
    \/ i.format = "I" /\ i.opcode \notin {8, 9, 12, 13, 4, 5, 1, 6, 32, 37,
                                           15, 35, 10, 43}

\* C12: executing an unrecognized function code or opcode is fatal: the run
\* terminates instead of continuing
C12_UnknownIsFatal ==
    (Executed /\ Unrecognized(Decoded)) => status # "running"

\* C13: ANDI and ORI use the zero-extended immediate, bit 15 set included:
\* the upper 16 bits of the ANDI result are 0, those of the ORI result are
\* the upper 16 bits of rs
C13_LogicalImmediate ==
    (Executed /\ status = "running" /\ Decoded.format = "I" /\ Decoded.rt # 0)
    => /\ Decoded.opcode = 12 =>
            registers[Decoded.rt] =
                <<0, And16(before.registers[Decoded.rs][2], Decoded.imm, 16)>>
       /\ Decoded.opcode = 13 =>
            registers[Decoded.rt] =
                << before.registers[Decoded.rs][1],
                   Or16(before.registers[Decoded.rs][2], Decoded.imm) >>

Aligned(a) == a[2] % 4 = 0

IsJumpRegister(i) == i.format = "R" /\ i.funct \in {8, 9}

\* C14 as stated: pc is a multiple of 4 in every reachable state, whatever
\* instructions ran (sequential, branches, J, JAL, JR, JALR)
C14_PcAligned == Aligned(pc)

\* C14, amended: every step other than the execution of JR or JALR keeps pc
\* a multiple of 4; JR and JALR set pc to the value of rs unchecked (JR as
\* the delay slot left it, JALR as it was before the delay slot)
C14_AlignmentKept ==
    [][ /\ (Aligned(pc) /\ ~(phase = "execute" /\ IsJumpRegister(Decoded)))
           => Aligned(pc')
        /\ (phase = "execute" /\ IsJumpRegister(Decoded)
              /\ status' = "running")
           => pc' = IF Decoded.funct = 8 THEN registers'[Decoded.rs]
                    ELSE registers[Decoded.rs] ]_vars

\* a JR ran its delay slot and then jumped to an aligned register value
C14_Witness ==
    /\ Executed /\ status = "running"
    /\ Decoded.format = "R" /\ Decoded.funct = 8
    /\ pc = registers[Decoded.rs] /\ Aligned(pc) /\ pc # Zero
    /\ trail # <<>>

\* the low 30 bits and the top 2 bits of a word, as numbers
Low30(a) == (a[1] % 16384) * Half + a[2]

Top2(a) == a[1] \div 16384

\* (a + b) mod 2^32, added in a 30-bit and a 2-bit column
SumMod32(a, b) ==
    LET low == Low30(a) + Low30(b)
        top == (Top2(a) + Top2(b) + low \div 1073741824) % 4
    IN  << top * 16384 + (low % 1073741824) \div Half, low % Half >>

\* C15: ADD and ADDU write (rs + rt) mod 2^32, SUB writes (rs - rt) mod 2^32,
\* ADDI and ADDIU write (rs + sign_extend(imm)) mod 2^32, and none of them
\* ends the run (rs = 0xFFFFFFF6 plus 20 gives 10)
C15_WrappingArithmetic ==
    (Executed /\ IsNonControl(Decoded))
    => LET i  == Decoded
           rs == before.registers[i.rs]
           rt == before.registers[i.rt]
       IN  /\ (i.format = "R" /\ i.funct \in {32, 33, 34}) =>
                  status = "running"
           /\ (i.format = "I" /\ i.opcode \in {8, 9}) => status = "running"
           /\ (i.format = "R" /\ i.funct \in {32, 33} /\ i.rd # 0) =>
                  registers[i.rd] = SumMod32(rs, rt)
           /\ (i.format = "R" /\ i.funct = 34 /\ i.rd # 0) =>
                  SumMod32(registers[i.rd], rt) = rs
           /\ (i.format = "I" /\ i.opcode \in {8, 9} /\ i.rt # 0) =>
                  registers[i.rt] =
                      SumMod32(rs, IF i.imm >= 32768 THEN <<65535, i.imm>>
                                   ELSE <<0, i.imm>>)

\* 0xFFFFFFF6 + 20 = 10: the ADD of r1 = 0xFFFFFFF6 and r2 = 20 wrote 10
C15_Witness ==
    /\ Executed /\ status = "running"
    /\ Decoded.format = "R" /\ Decoded.funct = 32 /\ Decoded.rd = 3
    /\ before.registers[Decoded.rs] = <<65535, 65526>>
    /\ before.registers[Decoded.rt] = <<0, 20>>
    /\ registers[3] = <<0, 10>>

\* a word read as a two's-complement number, -2^31 .. 2^31 - 1
AsI32(a) ==
    IF a[1] >= 32768 THEN (a[1] - Half) * Half + a[2] ELSE a[1] * Half + a[2]

\* C16: SLT compares as signed 32-bit numbers: rd = 1 iff rs < rt, else 0
\* (rs = 0xFFFFFFF6, rt = 20 gives 1)
C16_SetLessThan ==
    (Executed /\ Decoded.format = "R" /\ Decoded.funct = 42)
    => /\ status = "running"
       /\ Decoded.rd # 0 =>
            registers[Decoded.rd] =
                IF AsI32(before.registers[Decoded.rs])
                     < AsI32(before.registers[Decoded.rt])
                THEN <<0, 1>> ELSE Zero

\* SLT of rs = 0xFFFFFFF6 (-10) and rt = 20 wrote 1
C16_Witness ==
    /\ Executed /\ status = "running"
    /\ Decoded.format = "R" /\ Decoded.funct = 42 /\ Decoded.rd = 3
    /\ before.registers[Decoded.rs] = <<65535, 65526>>
    /\ before.registers[Decoded.rt] = <<0, 20>>
    /\ registers[3] = <<0, 1>>

\* bit k (0 = least significant) of a word
Bit(a, k) ==
    IF k >= 16 THEN (a[1] \div Pow2(k - 16)) % 2 ELSE (a[2] \div Pow2(k)) % 2

\* C17: SLL writes (rt << shamt) mod 2^32, SRL shifts right with zero fill,
\* SRA shifts right with sign fill (0xFFFFFFF6 by 2 gives 0xFFFFFFFD), and
\* with shamt = 0 each of the three writes rt unchanged to rd
C17_Shifts ==
    (Executed /\ Decoded.format = "R" /\ Decoded.funct \in {0, 2, 3}
       /\ Decoded.rd # 0)
    => LET rt == before.registers[Decoded.rt]
           rd == registers[Decoded.rd]
           s  == Decoded.shamt
       IN  /\ status = "running"
           /\ Decoded.funct = 0 =>
                \A k \in 0..31 :
                    Bit(rd, k) = IF k >= s THEN Bit(rt, k - s) ELSE 0
           /\ Decoded.funct = 2 =>
                \A k \in 0..31 :
                    Bit(rd, k) = IF k + s <= 31 THEN Bit(rt, k + s) ELSE 0
           /\ Decoded.funct = 3 =>
                \A k \in 0..31 :
                    Bit(rd, k) = IF k + s <= 31 THEN Bit(rt, k + s)
                                 ELSE Bit(rt, 31)
           /\ s = 0 => rd = rt

\* SRA of rt = 0xFFFFFFF6 by 2 wrote 0xFFFFFFFD
C17_Witness ==
    /\ Executed /\ status = "running"
    /\ Decoded.format = "R" /\ Decoded.funct = 3 /\ Decoded.rd = 3
    /\ Decoded.shamt = 2
    /\ before.registers[Decoded.rt] = <<65535, 65526>>
    /\ registers[3] = <<65535, 65533>>

\* the bytes from byte address a up to, and excluding, the first zero byte
RECURSIVE StringAt(_, _)
StringAt(mem, a) ==
    IF PackedByte(mem, a) = 0 THEN <<>>
    ELSE <<PackedByte(mem, a)>> \o StringAt(mem, Plus(a, 1))

\* C18: the print-string syscall (v0 = 4) prints the bytes that start at
\* byte address a0, four per word and least significant byte first, up to
\* but excluding the first zero byte, for aligned and unaligned a0 alike
C18_PrintString ==
    [][ (phase = "execute" /\ Decoded.format = "R" /\ Decoded.funct = 12
           /\ registers[2] = <<0, 4>>)
        => /\ status' = "running"
           /\ output' = Append(output,
                               <<"text", StringAt(memory, registers[4])>>)
      ]_vars

\* "Hello" was printed from the aligned address 0x10010000
C18_Witness ==
    /\ Executed /\ status = "running"
    /\ Decoded.format = "R" /\ Decoded.funct = 12
    /\ registers[2] = <<0, 4>> /\ registers[4] = DATA_BASE
    /\ output = << <<"text", <<72, 101, 108, 108, 111>> >> >>

\* the service numbers the SYSCALL arm acts on
Services == {<<0, 1>>, <<0, 4>>, <<0, 5>>, <<0, 10>>, <<0, 11>>}

IsSyscall(i) == i.format = "R" /\ i.funct = 12

\* C19: a SYSCALL whose v0 is none of 1, 4, 5, 10, 11 is a no-op: it changes
\* no register, no memory word, neither pc nor the jump flag, prints nothing
\* and does not end the run, which goes on with the next instruction
C19_UnknownServiceNoOp ==
    [][ /\ (phase = "execute" /\ IsSyscall(Decoded)
              /\ registers[2] \notin Services)
           => /\ registers' = registers /\ memory' = memory
              /\ pc' = pc /\ jump' = jump /\ output' = output
              /\ status' = "running" /\ phase' = "advance"
        /\ (phase = "advance" /\ IsSyscall(Decoded)
              /\ registers[2] \notin Services /\ status' = "running")
           => /\ pc' = Plus(at, 4) /\ phase' = "fetch"
              /\ registers' = registers /\ memory' = memory
      ]_vars

\* a SYSCALL with v0 = 7 has been executed and the run is about to go on
C19_Witness ==
    /\ phase = "advance" /\ status = "running"
    /\ IsSyscall(Decoded)
    /\ registers[2] = <<0, 7>>
    /\ before.registers = registers /\ pc = at /\ output = <<>>

TopSix(word) == CHOOSE o \in 0..63 : word[1] - o * 1024 \in 0..1023

\* C21: decoding is total and the opcode alone fixes the format: for every
\* word, get_instruction returns a register-format instruction when
\* word >> 26 is 0, a jump-format one when it is 2 or 3, an immediate-format
\* one for every other opcode
C21_DecodeTotal ==
    phase = "execute"
    => /\ decoded.format \in {"R", "J", "I"}
       /\ decoded.opcode = TopSix(instruction)
       /\ decoded.format = "R" <=> TopSix(instruction) = 0
       /\ decoded.format = "J" <=> TopSix(instruction) \in {2, 3}
       /\ decoded.format = "I" <=> TopSix(instruction) \notin {0, 2, 3}

\* the word 0xFFFFFFFF has been decoded, to an immediate-format instruction
C21_Witness ==
    /\ phase = "execute" /\ count = 0 /\ memory = <<>>
    /\ instruction = <<65535, 65535>>
    /\ decoded.format = "I" /\ decoded.opcode = 63

\* C22: decode round trip of the register format: for every word with
\* opcode 0, opcode<<26 | rs<<21 | rt<<16 | rd<<11 | shamt<<6 | funct of
\* the decoded fields is the word again, each of rs, rt, rd, shamt is in
\* 0..31 and funct is in 0..63
C22_RoundTrip ==
    (phase = "execute" /\ decoded.format = "R")
    => /\ decoded.opcode = 0
       /\ decoded.rs \in 0..31 /\ decoded.rt \in 0..31
       /\ decoded.rd \in 0..31 /\ decoded.shamt \in 0..31
       /\ decoded.funct \in 0..63
       /\ instruction =
            << decoded.opcode * 1024 + decoded.rs * 32 + decoded.rt,
               decoded.rd * 2048 + decoded.shamt * 64 + decoded.funct >>

\* the word of ADD r31,r1,r21 has been decoded into its fields
C22_Witness ==
    /\ phase = "execute" /\ count = 0 /\ memory = <<>>
    /\ instruction = <<53, 63520>>
    /\ decoded.format = "R" /\ decoded.name = "ADD" /\ decoded.funct = 32
    /\ decoded.rs = 1 /\ decoded.rt = 21 /\ decoded.rd = 31
    /\ decoded.shamt = 0

\* C23: at CPU construction, before any instruction runs, register 28 holds
\* 0x10008000, register 29 holds 0x7fffeffc, every other register holds 0
\* and the jump flag is false
C23_Construction ==
    ran = <<>>
    => /\ registers[28] = <<4096, 32768>>
       /\ registers[29] = <<32767, 61436>>
       /\ \A r \in (0..31) \ {28, 29} : registers[r] = <<0, 0>>
       /\ DOMAIN registers = 0..31
       /\ jump = FALSE

\* the first word has been fetched and nothing has been executed yet
C23_Witness ==
    /\ ran = <<>> /\ count = 0 /\ phase = "execute" /\ status = "running"
    /\ pc = TEXT_BASE /\ instruction # Zero
    /\ registers[28] = GLOBAL_POINTER /\ registers[29] = STACK_POINTER

\* sign_extend(imm) << 2 as a word: four times the signed value of imm
WordOffset(imm) ==
    LET v == 4 * (IF imm >= 32768 THEN imm - Half ELSE imm)
    IN  <<(v \div Half) % Half, v % Half>>

\* the BEQ or BNE fetched last found its condition true
BranchCondition ==
    \/ Decoded.opcode = 4
         /\ before.registers[Decoded.rs] = before.registers[Decoded.rt]
    \/ Decoded.opcode = 5
         /\ before.registers[Decoded.rs] # before.registers[Decoded.rt]

\* C24: BEQ with rs = rt, or BNE with rs # rt, changes pc to the branch's
\* own address plus sign_extend(imm) << 2, mod 2^32; BEQ with rs # rt, or
\* BNE with rs = rt, leaves pc unchanged and runs no delay slot (stated of
\* the executions that return)
C24_BranchTarget ==
    (Executed /\ status = "running" /\ Decoded.format = "I"
       /\ Decoded.opcode \in {4, 5})
    => IF BranchCondition
       THEN pc = SumMod32(before.pc, WordOffset(Decoded.imm))
       ELSE pc = before.pc /\ trail = <<>>

\* a <= b for two words read as unsigned numbers, compared column by column
UnsignedLe(a, b) ==
    Top2(a) < Top2(b) \/ (Top2(a) = Top2(b) /\ Low30(a) <= Low30(b))

\* C25: as the author's tests assert, BGEZ adds imm << 2 to pc when the
\* value of rs is >= the value of rt and leaves pc unchanged when rs < rt;
\* BLEZ adds imm << 2 to pc when rs <= rt and leaves pc unchanged when
\* rs > rt (the register values are u32)
C25_CompareWithRt ==
    (Executed /\ Decoded.format = "I" /\ Decoded.opcode \in {1, 6})
    => LET rs == before.registers[Decoded.rs]
           rt == before.registers[Decoded.rt]
           go == IF Decoded.opcode = 1 THEN UnsignedLe(rt, rs)
                 ELSE UnsignedLe(rs, rt)
       IN  /\ status = "running"
           /\ pc = IF go THEN SumMod32(before.pc, WordOffset(Decoded.imm))
                   ELSE before.pc
           /\ registers = before.registers /\ jump = before.jump

\* BGEZ with rs = 1, rt = 2 has left pc where it was
C25_Witness ==
    /\ Executed /\ status = "running"
    /\ Decoded.format = "I" /\ Decoded.opcode = 1
    /\ before.registers[Decoded.rs] = <<0, 1>>
    /\ before.registers[Decoded.rt] = <<0, 2>>
    /\ pc = before.pc /\ pc = at /\ ~taken

\* C26: every step of the run loop completes, also when the delay slot of a
\* branch or jump itself holds a branch or jump: run_branch_delayed is never
\* entered again while a delay-slot instruction is being executed (nesting
\* depth at most 1), and the step ends with the run going on
C26_DelaySlotGuarded ==
    Executed => (Len(trail) <= 1 /\ status # "stack_overflow")

\* C27: for JR and for JALR alike the delay-slot instruction executes first
\* and then pc = rs: the target committed to pc is the value register rs
\* holds after the delay slot has executed, also when the delay slot
\* writes rs
C27_TargetReadAfterSlot ==
    (Executed /\ status = "running" /\ IsJumpRegister(Decoded)
       /\ ~(Decoded.funct = 9 /\ Decoded.rd = Decoded.rs))
    => /\ trail = <<Plus(at, 4)>>
       /\ pc = registers[Decoded.rs]

\* decoding gave the instruction fetched last the name of an operation
Named(i) == i.name \notin {"unknown", "UNKNOWN", "Unknown J function"}

\* C28: the decode table and the execute dispatch agree: a code that
\* decoding resolves to a named operation executes without hitting the
\* unknown-operation path, and a code that executes an operation is not
\* resolved to "unknown" at decode time
C28_TablesAgree ==
    [][ phase = "execute" =>
          LET i == Decoded
              unknown_path ==
                  \/ i.format = "I" /\ trail' = <<>>
                       /\ status' = "panic_unknown_itype"
                  \/ i.format = "J" /\ status' = "panic_invalid_jtype"
                  \/ i.format = "R" /\ trail' = <<>>
                       /\ output' = Append(output, <<"line", "unknown">>)
          IN  Named(i) <=> ~unknown_path ]_vars
====
